---- MODULE Spec2Model ----
(***************************************************************************)
(* Garmin FIT -> GPX converter (Convert.py).                               *)
(*                                                                         *)
(* The module holds four specifications over one set of variables:         *)
(*   Spec       the command-line program and fit_to_gpx (Convert.py)       *)
(*   SpecDeg    semicircles_to_degrees as a pure function                  *)
(*   SpecTable  the MessageDefinitionTable / record dispatch of spec 4.2,  *)
(*              4.4 (no code in the repository: the decoding is delegated  *)
(*              to the fitparse library)                                   *)
(*   SpecTs     the compressed-timestamp rule of spec 4.3 (likewise)       *)
(*                                                                         *)
(* Conventions.  A Python value that may be None is a sequence of length   *)
(* 0 or 1: None is <<>>, a value v is <<v>>.  A Python dict is a function  *)
(* whose DOMAIN is the set of keys present.  A str is a sequence of        *)
(* one-character strings.  A Python int wider than 32 bits and a float64    *)
(* holding a multiple of 2^-31 are two-limb numbers <<hi, lo>> of value     *)
(* hi * 2^16 + lo with lo in 0..65535.                                     *)
(***************************************************************************)
EXTENDS Integers, Sequences, FiniteSets, TLC

VARIABLES
    argv,         \* sys.argv (argv[1] is the script name)
    fs,           \* the file system: path -> file content
    pc,           \* position of the program
    seen,         \* the values of the record messages the decoder has yielded
    trkseg,       \* the children of <trkseg>, in document order
    name,         \* the text of <trk><name>
    exc,          \* the exception that ended the run, None if none
    exit_code,    \* the exit status of the process, None while it runs
    deg,          \* SpecDeg: [pc, s, d, dneg, back]
    tbl,          \* SpecTable: [state, reason, table, stream, used]
    ts            \* SpecTs: [pc, T, o, t]

vars == <<argv, fs, pc, seen, trkseg, name, exc, exit_code, deg, tbl, ts>>
mainVars == <<argv, fs, pc, seen, trkseg, name, exc, exit_code>>

None == <<>>
Some(v) == <<v>>

(***************************************************************************)
(* Bounds                                                                  *)
(***************************************************************************)
MaxRecords == 2      \* record messages yielded by the decoder in one run
DegSteps == 20       \* semicircle samples on each side of 0, besides the edges
MaxLocalType == 2    \* local message types 0..MaxLocalType (of 0..15) are used
MaxStream == 3       \* records of a stream given to the record dispatch
MaxTsDelta == 40     \* last full timestamps base..base + MaxTsDelta

(***************************************************************************)
(* Two-limb integers                                                       *)
(***************************************************************************)
Limb == 2^16

Big(hi, lo) == <<hi + (lo \div Limb), lo % Limb>>
ToBig(n) == Big(n \div Limb, n % Limb)
BigNeg(a) == Big(-a[1], -a[2])
BigAdd(a, b) == Big(a[1] + b[1], a[2] + b[2])
BigLeq(a, b) == a[1] < b[1] \/ (a[1] = b[1] /\ a[2] <= b[2])
BigScale(a, k) == Big(a[1] * k, a[2] * k)
\* floor(a / k), for 0 < k < 2^15
BigDiv(a, k) == Big(a[1] \div k, ((a[1] % k) * Limb + a[2]) \div k)

(***************************************************************************)
(* semicircles_to_degrees (Convert.py:26-28)                               *)
(*                                                                         *)
(* semicircles / (2**31) is exact in float64 (a division of an integer     *)
(* below 2^53 by a power of two), and the product with 180.0 is exact as   *)
(* well while |semicircles| <= 2^31, since semicircles * 180 < 2^53.  The  *)
(* float64 result is therefore the rational semicircles * 180 / 2^31; it   *)
(* is held as its numerator over 2^31, a two-limb integer.                 *)
(***************************************************************************)
\* One degree, and the test -n <= d <= n on degrees
DegUnit == <<32768, 0>>

semicircles_to_degrees_x360(semicircles) == BigScale(semicircles, 360)

semicircles_to_degrees(semicircles) == BigScale(semicircles, 180)

Degrees(n) == BigScale(DegUnit, n)
InDegRange(d, n) == BigLeq(Degrees(-n), d) /\ BigLeq(d, Degrees(n))

(***************************************************************************)
(* str operations                                                          *)
(***************************************************************************)
RECURSIVE replace(_, _, _)
\* str.replace(old, new): every non-overlapping occurrence, left to right
replace(s, old, new) ==
    IF Len(s) < Len(old) THEN s
    ELSE IF SubSeq(s, 1, Len(old)) = old
         THEN new \o replace(SubSeq(s, Len(old) + 1, Len(s)), old, new)
         ELSE <<Head(s)>> \o replace(Tail(s), old, new)

LastIndex(s, c) ==
    LET I == {i \in 1..Len(s) : s[i] = c}
    IN IF I = {} THEN 0 ELSE CHOOSE i \in I : \A j \in I : j <= i

\* os.path.basename: what follows the last "/"
basename(p) == SubSeq(p, LastIndex(p, "/") + 1, Len(p))

\* os.path.splitext(p)[0] of a path without "/": the part before the last
\* ".", unless only dots precede that "."
splitext_root(p) ==
    LET d == LastIndex(p, ".")
    IN IF d > 0 /\ \E i \in 1..(d - 1) : p[i] # "."
       THEN SubSeq(p, 1, d - 1) ELSE p

DotFit == <<".", "f", "i", "t">>
DotGpx == <<".", "g", "p", "x">>

(***************************************************************************)
(* Inputs                                                                  *)
(***************************************************************************)
Script == <<"c">>
InputPaths ==
    { <<"a", ".", "f", "i", "t">>,
      <<"A", ".", "F", "I", "T">>,
      <<"d", ".", "f", "i", "t", "/", "a", ".", "f", "i", "t">>,
      <<"a">> }
OutputPaths ==
    { <<"o", ".", "g", "p", "x">>, <<>> }

ArgvSet ==
    {<<Script>>}
    \cup {<<Script, i>> : i \in InputPaths}
    \cup {<<Script, i, o>> : i \in InputPaths, o \in OutputPaths}
    \cup {<<Script, <<"a">>, <<"b">>, <<"c">>>>}

\* Semicircle values a decoded record carries (signed 32-bit, the invalid
\* value 0x7FFFFFFF excluded: the decoder yields None for it)
Min32 == -2147483647 - 1
Max32 == 2147483646 + 1
LatSamples == {0, 1073741825}
LonSamples == {-5}

Field(k, kind, v) ==
    CASE kind = "missing" -> <<>>
      [] kind = "none"    -> k :> None
      [] kind = "value"   -> k :> Some(v)

Kinds == {"missing", "none", "value"}

\* record.get_values(): the dicts a record message may decode to.  Every
\* combination of missing, None and present positions without other fields,
\* and three records that carry the optional fields (altitude in
\* millimetres, timestamp in seconds) and the extreme semicircle values
RecordValues ==
    { Field("position_lat", k1, v1) @@ Field("position_long", k2, v2) :
        k1 \in Kinds, v1 \in LatSamples, k2 \in Kinds, v2 \in LonSamples }
    \cup
    { ("position_lat" :> Some(Min32)) @@ ("position_long" :> Some(Max32 - 1))
          @@ ("altitude" :> Some(900200)) @@ ("timestamp" :> Some(7))
          @@ ("heart_rate" :> Some(120)) @@ ("cadence" :> None),
      ("position_lat" :> Some(Max32 - 1)) @@ ("position_long" :> Some(Min32))
          @@ ("altitude" :> None) @@ ("cadence" :> Some(80)),
      ("position_lat" :> None) @@ ("position_long" :> Some(0))
          @@ ("altitude" :> Some(-1400)) @@ ("heart_rate" :> Some(60)) }

\* The decoder's fatal errors
FatalErrors == {"BadSignature", "TruncatedStream", "UndefinedLocalType"}

FitContent == [kind |-> "fit", name |-> <<>>, trkseg |-> <<>>]
GpxContent(n, seg) == [kind |-> "gpx", name |-> n, trkseg |-> seg]

(***************************************************************************)
(* fit_to_gpx (Convert.py:31-91)                                           *)
(***************************************************************************)
\* dict.get(key): None when the key is missing
get(values, k) == IF k \in DOMAIN values THEN values[k] ELSE None

\* round(x, 2) of an altitude held in millimetres, as centimetres (decoded
\* altitudes are multiples of 0.2 m, so no tie arises)
round2(mm) == (mm + 5) \div 10

\* Convert.py:50-53, negated: the record is not skipped
HasPosition(values) ==
    /\ ~ ("position_lat" \notin DOMAIN values \/ "position_long" \notin DOMAIN values)
    /\ ~ (values["position_lat"] = None \/ values["position_long"] = None)

\* Convert.py:71-84: the <extensions> block
Extensions(values) ==
    LET hr == get(values, "heart_rate")
        cadence == get(values, "cadence")
    IN IF hr # None \/ cadence # None
       THEN Some([hr |-> hr, cadence |-> cadence])
       ELSE None

\* Convert.py:55-84: the <trkpt> element of a record that is not skipped
TrackPoint(values) ==
    [ lat  |-> semicircles_to_degrees(ToBig(values["position_lat"][1])),
      lon  |-> semicircles_to_degrees(ToBig(values["position_long"][1])),
      ele  |-> IF get(values, "altitude") # None
               THEN Some(round2(values["altitude"][1])) ELSE None,
      time |-> IF get(values, "timestamp") # None
               THEN values["timestamp"] ELSE None,
      extensions |-> Extensions(values) ]

\* Convert.py:87
OutputPath(fit_file_path, gpx_file_path) ==
    IF gpx_file_path # None /\ gpx_file_path[1] # <<>>
    THEN gpx_file_path[1]
    ELSE replace(fit_file_path, DotFit, DotGpx)

input_path == argv[2]
output_arg == IF Len(argv) = 3 THEN Some(argv[3]) ELSE None

isfile(p) == p \in DOMAIN fs

(***************************************************************************)
(* The program                                                             *)
(***************************************************************************)
InitMain ==
    /\ argv \in ArgvSet
    /\ fs \in {<<>>} \cup (IF Len(argv) >= 2 THEN {argv[2] :> FitContent} ELSE {})
    /\ pc = "main"
    /\ seen = <<>>
    /\ trkseg = <<>>
    /\ name = <<>>
    /\ exc = None
    /\ exit_code = None

Exit(code) ==
    /\ pc' = "exited"
    /\ exit_code' = Some(code)

\* Convert.py:95-97
Usage ==
    /\ pc = "main"
    /\ Len(argv) < 2 \/ Len(argv) > 3
    /\ Exit(1)
    /\ UNCHANGED <<deg, tbl, ts, argv, fs, seen, trkseg, name, exc>>

NotFound_exit0 ==
    /\ pc = "main"
    /\ ~ (Len(argv) < 2 \/ Len(argv) > 3)
    /\ ~ isfile(input_path)
    /\ Exit(0)
    /\ UNCHANGED <<deg, tbl, ts, argv, fs, seen, trkseg, name, exc>>

\* Convert.py:102-104
NotFound ==
    /\ pc = "main"
    /\ ~ (Len(argv) < 2 \/ Len(argv) > 3)
    /\ ~ isfile(input_path)
    /\ Exit(1)
    /\ UNCHANGED <<deg, tbl, ts, argv, fs, seen, trkseg, name, exc>>

\* An exception nothing catches ends the interpreter with status 1
Uncaught(e) ==
    /\ exc' = Some(e)
    /\ Exit(1)

\* Convert.py:106, 32-43: the call, FitFile(...) and the GPX skeleton
Open ==
    /\ pc = "main"
    /\ ~ (Len(argv) < 2 \/ Len(argv) > 3)
    /\ isfile(input_path)
    /\ pc' = "records"
    /\ name' = splitext_root(basename(input_path))
    /\ trkseg' = <<>>
    /\ UNCHANGED <<deg, tbl, ts, argv, fs, seen, exc, exit_code>>

\* Convert.py:32: FitFile(...) raises on a file that is no FIT file
OpenFail(e) ==
    /\ pc = "main"
    /\ ~ (Len(argv) < 2 \/ Len(argv) > 3)
    /\ isfile(input_path)
    /\ Uncaught(e)
    /\ UNCHANGED <<deg, tbl, ts, argv, fs, seen, trkseg, name>>

\* A <trkpt> without coordinates
EmptyTrackPoint ==
    [lat |-> None, lon |-> None, ele |-> None, time |-> None, extensions |-> None]

Record_emit_empty(values) ==
    /\ pc = "records"
    /\ Len(seen) < MaxRecords
    /\ seen' = Append(seen, values)
    /\ trkseg' = IF HasPosition(values)
                 THEN Append(trkseg, TrackPoint(values))
                 ELSE Append(trkseg, EmptyTrackPoint)
    /\ UNCHANGED <<deg, tbl, ts, argv, fs, pc, name, exc, exit_code>>

Record_dedup(values) ==
    /\ pc = "records"
    /\ Len(seen) < MaxRecords
    /\ seen' = Append(seen, values)
    /\ trkseg' = IF HasPosition(values)
                    /\ \A i \in 1..Len(trkseg) : trkseg[i] # TrackPoint(values)
                 THEN Append(trkseg, TrackPoint(values))
                 ELSE trkseg
    /\ UNCHANGED <<deg, tbl, ts, argv, fs, pc, name, exc, exit_code>>

\* Convert.py:46-84: one iteration of the loop over the record messages
Record(values) ==
    /\ pc = "records"
    /\ Len(seen) < MaxRecords
    /\ seen' = Append(seen, values)
    /\ trkseg' = IF HasPosition(values)
                 THEN Append(trkseg, TrackPoint(values))
                 ELSE trkseg
    /\ UNCHANGED <<deg, tbl, ts, argv, fs, pc, name, exc, exit_code>>

DecodeFail_flush(e) ==
    /\ pc = "records"
    /\ fs' = (OutputPath(input_path, output_arg) :> GpxContent(name, trkseg)) @@ fs
    /\ Uncaught(e)
    /\ UNCHANGED <<deg, tbl, ts, argv, seen, trkseg, name>>

\* Convert.py:46: get_messages raises while the stream is decoded
DecodeFail(e) ==
    /\ pc = "records"
    /\ Uncaught(e)
    /\ UNCHANGED <<deg, tbl, ts, argv, fs, seen, trkseg, name>>

\* Convert.py:86-91, 106-107: the stream has ended; write, return, print
Write ==
    /\ pc = "records"
    /\ fs' = (OutputPath(input_path, output_arg) :> GpxContent(name, trkseg)) @@ fs
    /\ Exit(0)
    /\ UNCHANGED <<deg, tbl, ts, argv, seen, trkseg, name, exc>>

Next ==
    \/ Usage
    \/ NotFound
    \/ Open
    \/ \E e \in FatalErrors : OpenFail(e)
    \/ \E values \in RecordValues : Record(values)
    \/ \E e \in FatalErrors : DecodeFail(e)
    \/ Write

InitMainIdle ==
    /\ argv = <<Script>>
    /\ fs = <<>>
    /\ pc = "idle"
    /\ seen = <<>>
    /\ trkseg = <<>>
    /\ name = <<>>
    /\ exc = None
    /\ exit_code = None
InitDegIdle == deg = [pc |-> "idle"]
InitTblIdle == tbl = [state |-> "idle"]
InitTsIdle == ts = [pc |-> "idle"]

Init == InitMain /\ InitDegIdle /\ InitTblIdle /\ InitTsIdle
Spec == Init /\ [][Next]_vars


(***************************************************************************)
(* Properties of the program (Spec)                                        *)
(***************************************************************************)
Present(values, k) == k \in DOMAIN values /\ Len(values[k]) = 1
BothPresent(values) ==
    Present(values, "position_lat") /\ Present(values, "position_long")
OutputFiles == {p \in DOMAIN fs : fs[p].kind = "gpx"}
Lasts(s) == s[Len(s)]

\* C1: a <trkpt> is produced for a record only if both position_lat and
\* position_long are present and not None in that record: <trkseg> changes
\* only in a step that consumes one record, and that record has both.
C1_TrkptOnlyWithBothCoordinates ==
    [][trkseg' # trkseg =>
          /\ seen' = Append(seen, Lasts(seen'))
          /\ BothPresent(Lasts(seen'))
          /\ Len(trkseg') = Len(trkseg) + 1]_vars

\* C1 witness: a finished run that met a record with latitude but no
\* longitude, one with longitude but no latitude, and produced no point.
C1_Witness ==
    /\ exit_code = Some(0)
    /\ Len(seen) = 2
    /\ Present(seen[1], "position_lat") /\ ~ Present(seen[1], "position_long")
    /\ Present(seen[2], "position_long") /\ ~ Present(seen[2], "position_lat")
    /\ trkseg = <<>>

\* The track points of the records of s that carry both coordinates, in order
ExpectedTrkseg(s) ==
    LET q == SelectSeq(s, BothPresent)
    IN [i \in 1..Len(q) |-> TrackPoint(q[i])]

\* C2: the track points are exactly those of the records with both
\* coordinates, in arrival order, one per record; a run whose stream ends
\* without error can always write, and the document it writes holds that
\* sequence (the empty one included).
C2_TrksegIsQualifyingSubsequence ==
    /\ trkseg = ExpectedTrkseg(seen)
    /\ pc = "records" => ENABLED Write
    /\ (pc = "exited" /\ exit_code = Some(0)) =>
          /\ OutputFiles # {}
          /\ \A p \in OutputFiles : fs[p].trkseg = ExpectedTrkseg(seen)

\* C2 witness: two identical qualifying records gave two identical points,
\* written to the output.
C2_Witness ==
    /\ exit_code = Some(0)
    /\ Len(seen) = 2 /\ seen[1] = seen[2]
    /\ Len(trkseg) = 2 /\ trkseg[1] = trkseg[2]
    /\ \E p \in OutputFiles : fs[p].trkseg = trkseg

\* C3: a run that ends in a fatal decoding error ends with that exception
\* uncaught and leaves the file system as it was: the input file alone, no
\* output created or modified.
C3_NoOutputOnFatalError ==
    exc # None =>
        /\ exc[1] \in FatalErrors
        /\ pc = "exited" /\ exit_code = Some(1)
        /\ fs = (argv[2] :> FitContent)

\* C3 witness: the error came after a track point had been decoded.
C3_Witness ==
    /\ exc = Some("TruncatedStream")
    /\ Len(trkseg) >= 1
    /\ pc = "exited"

\* C4: the exit status is 1 after a usage error, a missing input file or a
\* decoding error, and 0 exactly when an output document was written.
C4_ExitCodes ==
    pc = "exited" =>
        /\ exit_code \in {Some(0), Some(1)}
        /\ (Len(argv) < 2 \/ Len(argv) > 3) => exit_code = Some(1)
        /\ (Len(argv) \in {2, 3} /\ argv[2] \notin DOMAIN fs) => exit_code = Some(1)
        /\ exc # None => exit_code = Some(1)
        /\ exit_code = Some(0) <=> OutputFiles # {}

\* C4 witness: a missing input file, exit status 1.
C4_Witness ==
    /\ pc = "exited"
    /\ Len(argv) = 2 /\ argv[2] \notin DOMAIN fs
    /\ exit_code = Some(1)

\* C6: every track point has latitude in [-90, 90] and longitude in
\* [-180, 180].
C6_CoordinatesInRange ==
    \A i \in 1..Len(trkseg) :
        InDegRange(trkseg[i].lat, 90) /\ InDegRange(trkseg[i].lon, 180)

\* C10: a run without an output argument never writes to the input path: the
\* input file is still the FIT file when the run has ended.
C10_SourceNotOverwritten ==
    (pc = "exited" /\ Len(argv) = 2 /\ exit_code = Some(0)) =>
        fs[argv[2]] = FitContent

(***************************************************************************)
(* SpecDeg: semicircles_to_degrees on its own                              *)
(***************************************************************************)
\* Signed 32-bit semicircle values other than the invalid value 0x7FFFFFFF
SemicircleSamples ==
    {Min32, Min32 + 1, -1073741825, -1073741824, -1, 0, 1,
     1073741824, 1073741825, Max32 - 1}
    \cup {k * 97654321 : k \in (-DegSteps)..DegSteps}

\* Degrees back to semicircles, degrees * 2^31 / 180 (spec section 8; the
\* program has no such function)
degrees_to_semicircles(d) == BigDiv(d, 180)

InitDeg ==
    /\ InitMainIdle /\ InitTblIdle /\ InitTsIdle
    /\ \E s \in SemicircleSamples :
           deg = [pc |-> "run", s |-> s, d |-> None, dneg |-> None, back |-> None]

DegConvert ==
    /\ deg.pc = "run" /\ deg.d = None
    /\ deg' = [deg EXCEPT !.d = Some(semicircles_to_degrees(ToBig(deg.s)))]
    /\ UNCHANGED <<mainVars, tbl, ts>>

DegConvertNeg ==
    /\ deg.pc = "run" /\ deg.dneg = None
    /\ deg' = [deg EXCEPT
                 !.dneg = Some(semicircles_to_degrees(BigNeg(ToBig(deg.s))))]
    /\ UNCHANGED <<mainVars, tbl, ts>>

DegBack ==
    /\ deg.pc = "run" /\ deg.d # None /\ deg.back = None
    /\ deg' = [deg EXCEPT !.back = Some(degrees_to_semicircles(deg.d[1]))]
    /\ UNCHANGED <<mainVars, tbl, ts>>

NextDeg == DegConvert \/ DegConvertNeg \/ DegBack
SpecDeg == InitDeg /\ [][NextDeg]_vars

\* C5: for a signed 32-bit s other than 0x7FFFFFFF, degrees(s) lies in
\* [-180, 180], degrees(-s) = -degrees(s), and the degrees converted back
\* to semicircles are within 1 of s.
C5_DegreesRangeOddRoundTrip ==
    deg.pc = "run" =>
        /\ deg.d # None => InDegRange(deg.d[1], 180)
        /\ (deg.d # None /\ deg.dneg # None) => deg.dneg[1] = BigNeg(deg.d[1])
        /\ deg.back # None =>
              /\ BigLeq(BigAdd(ToBig(deg.s), ToBig(-1)), deg.back[1])
              /\ BigLeq(deg.back[1], BigAdd(ToBig(deg.s), ToBig(1)))

\* C5 witness: the smallest semicircle value, -2^31, converted (to -180
\* degrees), its negation converted, and the degrees converted back.
C5_Witness ==
    /\ deg.pc = "run" /\ deg.s = Min32
    /\ deg.d = Some(Degrees(-180))
    /\ deg.dneg = Some(Degrees(180))
    /\ deg.back = Some(ToBig(Min32))

(***************************************************************************)
(* SpecTable: MessageDefinitionTable and the dispatch of records           *)
(* (spec sections 4.2 and 4.4)                                             *)
(***************************************************************************)
LocalTypes == 0..MaxLocalType

\* Message definitions: global message number and field numbers
Definitions ==
    { [global |-> 20, fields |-> <<0, 1>>],
      [global |-> 20, fields |-> <<0, 1, 2, 253>>],
      [global |-> 0,  fields |-> <<0>>] }

define_keep_first(table, localType, definition) ==
    IF table[localType] = None
    THEN [table EXCEPT ![localType] = Some(definition)]
    ELSE table

\* define(localType, MessageDefinition): overwrites any prior entry
define(table, localType, definition) ==
    [table EXCEPT ![localType] = Some(definition)]

\* lookup(localType): the current definition, None for UndefinedLocalType
lookup(table, localType) == table[localType]

InitTbl ==
    /\ InitMainIdle /\ InitDegIdle /\ InitTsIdle
    /\ tbl = [ state  |-> "ReadingRecords",
               reason |-> None,
               table  |-> [l \in LocalTypes |-> None],
               stream |-> <<>>,
               used   |-> None ]

\* A definition record
TblDefinition(localType, definition) ==
    /\ tbl.state = "ReadingRecords"
    /\ Len(tbl.stream) < MaxStream
    /\ tbl' = [tbl EXCEPT
                 !.table = define(tbl.table, localType, definition),
                 !.stream = Append(@, [kind |-> "definition",
                                       local |-> localType,
                                       def |-> Some(definition)])]
    /\ UNCHANGED <<mainVars, deg, ts>>

\* A data record: lookup, then decode with the definition found
TblData(localType) ==
    /\ tbl.state = "ReadingRecords"
    /\ Len(tbl.stream) < MaxStream
    /\ LET found == lookup(tbl.table, localType)
           rec == [kind |-> "data", local |-> localType, def |-> None]
       IN IF found = None
          THEN tbl' = [tbl EXCEPT !.state = "Failed",
                                  !.reason = Some("UndefinedLocalType"),
                                  !.stream = Append(@, rec)]
          ELSE tbl' = [tbl EXCEPT !.used = found,
                                  !.stream = Append(@, rec)]
    /\ UNCHANGED <<mainVars, deg, ts>>

\* bytes-remaining has reached 0
TblEnd ==
    /\ tbl.state = "ReadingRecords"
    /\ tbl' = [tbl EXCEPT !.state = "Done"]
    /\ UNCHANGED <<mainVars, deg, ts>>

\* The buffer ends inside a record
TblTruncated ==
    /\ tbl.state = "ReadingRecords"
    /\ tbl' = [tbl EXCEPT !.state = "Failed", !.reason = Some("TruncatedStream")]
    /\ UNCHANGED <<mainVars, deg, ts>>

NextTbl ==
    \/ \E l \in LocalTypes, d \in Definitions : TblDefinition(l, d)
    \/ \E l \in LocalTypes : TblData(l)
    \/ TblEnd
    \/ TblTruncated
SpecTable == InitTbl /\ [][NextTbl]_vars

\* The definition records for the local type of the last record of the
\* stream that precede it
EarlierDefinitions(stream) ==
    {i \in 1..(Len(stream) - 1) :
        stream[i].kind = "definition" /\ stream[i].local = Lasts(stream).local}
Latest(I) == CHOOSE i \in I : \A j \in I : j <= i

\* C7: a data record whose local type no earlier record of the stream
\* defined puts the parser in Failed(UndefinedLocalType); one whose local
\* type was defined never fails so and is decoded with the latest earlier
\* definition for that local type.
C7_UndefinedLocalTypeFails ==
    (tbl.state # "idle" /\ tbl.stream # <<>> /\ Lasts(tbl.stream).kind = "data") =>
        IF EarlierDefinitions(tbl.stream) = {}
        THEN tbl.state = "Failed" /\ tbl.reason = Some("UndefinedLocalType")
        ELSE /\ tbl.reason # Some("UndefinedLocalType")
             /\ tbl.used = tbl.stream[Latest(EarlierDefinitions(tbl.stream))].def

\* C7 witness: a local type defined twice, differently, then used by a data
\* record that is decoded with the second definition.
C7_Witness ==
    /\ tbl.state = "ReadingRecords"
    /\ Len(tbl.stream) = 3
    /\ tbl.stream[1].kind = "definition" /\ tbl.stream[2].kind = "definition"
    /\ tbl.stream[3].kind = "data"
    /\ tbl.stream[1].local = tbl.stream[3].local
    /\ tbl.stream[2].local = tbl.stream[3].local
    /\ tbl.stream[1].def # tbl.stream[2].def
    /\ tbl.used = tbl.stream[2].def

(***************************************************************************)
(* SpecTs: compressed timestamps (spec section 4.3)                        *)
(***************************************************************************)
reconstruct_leq(T, offset) ==
    IF offset <= T % 32 THEN T - (T % 32) + offset + 32
    ELSE T - (T % 32) + offset

\* The time of a record with a 5-bit offset, T the last full timestamp
reconstruct(T, offset) ==
    IF offset < T % 32 THEN T - (T % 32) + offset + 32
    ELSE T - (T % 32) + offset

InitTs ==
    /\ InitMainIdle /\ InitDegIdle /\ InitTblIdle
    /\ \E base \in {0, 1000000000}, d \in 0..MaxTsDelta, o \in 0..31 :
           ts = [pc |-> "run", T |-> base + d, o |-> o, t |-> None]

TsReconstruct ==
    /\ ts.pc = "run" /\ ts.t = None
    /\ ts' = [ts EXCEPT !.t = Some(reconstruct(ts.T, ts.o))]
    /\ UNCHANGED <<mainVars, deg, tbl>>

NextTs == TsReconstruct
SpecTs == InitTs /\ [][NextTs]_vars

\* C8: the reconstructed time is the smallest time >= T whose low 5 bits
\* are the offset: it is not before T and less than 32 seconds after T.
C8_SmallestTimeWithOffset ==
    (ts.pc = "run" /\ ts.t # None) =>
        LET t == ts.t[1]
        IN /\ t >= ts.T
           /\ t < ts.T + 32
           /\ t % 32 = ts.o
           /\ \A u \in ts.T..(t - 1) : u % 32 # ts.o

\* C8 witness: an offset below T mod 32, which rolls into the next 32 s.
C8_Witness ==
    /\ ts.pc = "run" /\ ts.t # None
    /\ ts.o < ts.T % 32
    /\ ts.t[1] = ts.T - (ts.T % 32) + ts.o + 32

====
